---- MODULE Spec2Model ----
(***************************************************************************)
(* A model of the frame extraction of ROSAnnotator                         *)
(* (src/dataset_parser/datset_parser.py): the payload classification and   *)
(* decoding inlined in readBlobData, readBlobData itself (one run over a   *)
(* list of db3 files for one camera stream) and RacecarROSBagParser.parse, *)
(* which starts one process per camera stream and joins them.              *)
(***************************************************************************)
EXTENDS Integers, Sequences, FiniteSets, TLC

(***************************************************************************)
(* Bounds of the model.                                                    *)
(***************************************************************************)
\* camera streams of __frames that the model runs (a prefix of the list)
NumFrames == 2
\* messages per topic in the log handed to parse
MaxJobMsgs == 1
\* messages per topic and file in a direct call of readBlobData
MaxMsgs == 3
\* db3 files in the `files` argument of readBlobData
MaxFiles == 2
\* largest subsampling stride tried (the smallest is -1)
MaxStride == 2
\* bytes in front of a marker in the payloads handed to the classifier
MaxPad == 66
\* bytes after the last marker in the payloads handed to the classifier
MaxTail == 1

(***************************************************************************)
(* Bytes and byte strings.  A bytes object is a sequence of 0..255; Python *)
(* indexes it from 0, TLA+ from 1.                                         *)
(***************************************************************************)
\* b"JFIF"
JFIF == <<74, 70, 73, 70>>
\* b"bayer"
BAYER == <<98, 97, 121, 101, 114>>
\* b"bgr"
BGR == <<98, 103, 114>>
\* the six bytes a JFIF file holds in front of its marker: SOI, APP0, length
JpegLead == <<255, 216, 255, 224, 0, 16>>
\* index - 6: how far in front of the marker the image data starts
MarkerBack == 6
\* + 3: the length of "bgr", skipped past its match
BgrSkip == 3
\* 0x40: a raw-format marker found later than this is not trusted
SearchBound == 64

Pad(n) == [i \in 1..n |-> 0]

\* the lowest 0-based index at or after i where pat occurs in s, -1 if none
RECURSIVE FindFrom(_, _, _)
FindFrom(s, pat, i) ==
    IF i + Len(pat) > Len(s) THEN 0 - 1
    ELSE IF SubSeq(s, i + 1, i + Len(pat)) = pat THEN i
    ELSE FindFrom(s, pat, i + 1)

\* bytes.find(pat): the lowest 0-based index where pat occurs, -1 if nowhere
Find(s, pat) == FindFrom(s, pat, 0)

\* s[start:] as Python slices it: a negative start counts from the end of s
\* and is clamped at 0; a start past the end gives b""
SliceFrom(s, start) ==
    LET from == IF start < 0
                THEN (IF Len(s) + start < 0 THEN 0 ELSE Len(s) + start)
                ELSE (IF start > Len(s) THEN Len(s) ELSE start)
    IN  SubSeq(s, from + 1, Len(s))

\* "compressed" in topicQuery, where topicQuery is
\* f"%/camera/{frame}/image/compressed": true of every stream name
JpegModeOf(frame) == TRUE

\* the slice start of the compressed branch: photo.find(b"JFIF") - 6
JpegStart(photo) == Find(photo, JFIF) - MarkerBack

\* the index of the raw branch
RawIndex(photo) ==
    LET i1 == Find(photo, BAYER)
        i2 == IF i1 = -1 \/ i1 > SearchBound
              THEN Find(photo, BGR) + BgrSkip ELSE i1
    IN  IF i2 = -1 \/ i2 > SearchBound THEN 0 ELSE i2

\* jpgArray: the bytes handed to the decoder
JpgArray(photo, jpegMode) ==
    IF jpegMode THEN SliceFrom(photo, JpegStart(photo))
    ELSE SliceFrom(photo, RawIndex(photo))

NoImage == [kind |-> "None"]
Cv2Error == [kind |-> "cv2.error"]
NumpyError == [kind |-> "TypeError"]

\* cv2.imdecode: raises on an empty buffer, returns None for bytes that are
\* no image, and the BGR image of a JFIF file (its bytes after the marker)
Imdecode(buf) ==
    IF Len(buf) = 0 THEN Cv2Error
    ELSE IF /\ Len(buf) >= Len(JpegLead) + Len(JFIF)
            /\ SubSeq(buf, 1, Len(JpegLead)) = JpegLead
            /\ SubSeq(buf, Len(JpegLead) + 1, Len(JpegLead) + Len(JFIF)) = JFIF
         THEN [kind |-> "image", order |-> "BGR",
               pixels |-> SliceFrom(buf, Len(JpegLead) + Len(JFIF))]
         ELSE NoImage

\* cv2.cvtColor(img, COLOR_BGR2RGB): raises on None
CvtColor(img) ==
    IF img.kind = "image"
    THEN [img EXCEPT !.order = IF img.order = "BGR" THEN "RGB" ELSE "BGR"]
    ELSE Cv2Error

\* get_opencv_img_from_buffer(buffer, flags, CONVERT_BGR)
get_opencv_img_from_buffer(buffer, convertBgr) ==
    LET img == Imdecode(buffer)
    IN  IF img.kind = "cv2.error" THEN Cv2Error
        ELSE IF convertBgr THEN CvtColor(img)
        ELSE img

\* bytes of the fixed geometry of the raw branch, height * width * channels,
\* scaled from 1544 * 2064 * 3 to a buffer the model can hold
RawGeometryBytes == 6

\* vimba_as_numpy_ndarray(jpgArray, 1544, 2064, 8, 24): numpy refuses a
\* buffer shorter than the shape
vimba_as_numpy_ndarray(byteArray) ==
    IF Len(byteArray) < RawGeometryBytes THEN NumpyError
    ELSE [kind |-> "image", order |-> "BGR",
          pixels |-> SubSeq(byteArray, 1, RawGeometryBytes)]

\* lines 125-148: the image of one payload, or the exception raised
DecodePayload(photo, jpegMode, convertBgr) ==
    IF jpegMode
    THEN get_opencv_img_from_buffer(JpgArray(photo, TRUE), convertBgr)
    ELSE LET frame == vimba_as_numpy_ndarray(JpgArray(photo, FALSE))
         IN  IF frame.kind = "image" THEN CvtColor(frame) ELSE frame

\* cv2.imwrite(final_name, img): raises on None, else writes the file
ImwriteRaises(img) == img.kind # "image"


(***************************************************************************)
(* The logs.  A db3 file holds a topic catalog and the messages of each    *)
(* topic in row order; db[d][w] is what file d holds for the topic of      *)
(* stream w.  Stream w is frames[w]; its topic id in a file that has it is *)
(* w.  The two data bytes of a payload are its file and its row, so that   *)
(* the image of a message identifies the message.                          *)
(***************************************************************************)
\* self.__frames
frames == <<"front_left", "front_right", "front_left_center",
            "front_right_center", "rear_left", "rear_right">>

Workers == 1..NumFrames

\* a well-formed compressed-image message: two bytes of message header,
\* then a JFIF file
JpegPayload(d, i) == Pad(2) \o JpegLead \o JFIF \o <<d, i>>
\* a payload without the marker
NoMarkerPayload(d, i) == Pad(2) \o JpegLead \o <<d, i>>
\* a payload whose marker sits at position 2, nearer the start than 6
EarlyMarkerPayload(d, i) == Pad(2) \o JFIF \o <<d, i>>

\* a raw sensor-pattern message: the encoding name "bayer", then the pixel
\* buffer of the fixed geometry
RawPayload(d, i) ==
    BAYER \o [k \in 1..RawGeometryBytes |-> IF k = 1 THEN d ELSE i]

OddPayload(kind, d, i) ==
    IF kind = "nomarker" THEN NoMarkerPayload(d, i)
    ELSE IF kind = "raw" THEN RawPayload(d, i)
    ELSE EarlyMarkerPayload(d, i)

AbsentTopic == [present |-> FALSE, msgs |-> <<>>]

\* the shapes of what a file holds for one topic: <<-1, 0, kind>> is no
\* topic; <<M, bad, kind>> is M messages of which message `bad` (none if 0)
\* is not a well-formed compressed image but an odd payload of that kind
Shapes(maxM, kinds) ==
    {t \in ({0 - 1} \cup (0..maxM)) \X (0..maxM) \X kinds :
        /\ t[2] <= t[1] \/ (t[1] = 0 - 1 /\ t[2] = 0)
        /\ t[2] = 0 => t[3] = CHOOSE k \in kinds : TRUE}

\* file d's topic of that shape
LogOf(d, shape) ==
    IF shape[1] = 0 - 1 THEN AbsentTopic
    ELSE [present |-> TRUE,
          msgs |-> [i \in 1..shape[1] |->
                      IF i = shape[2] THEN OddPayload(shape[3], d, i)
                      ELSE JpegPayload(d, i)]]

RECURSIVE TotalMsgs(_, _)
TotalMsgs(sh, n) ==
    IF n = 0 THEN 0
    ELSE (IF sh[n][1] > 0 THEN sh[n][1] ELSE 0) + TotalMsgs(sh, n - 1)

RECURSIVE TotalOdd(_, _)
TotalOdd(sh, n) ==
    IF n = 0 THEN 0
    ELSE (IF sh[n][2] > 0 THEN 1 ELSE 0) + TotalOdd(sh, n - 1)

Strides == (0 - 1)..MaxStride

(***************************************************************************)
(* State.                                                                  *)
(***************************************************************************)
VARIABLES
    SKIP_FRAMES,    \* RacecarROSBagParser.__SKIP_FRAMES
    CONVERT_BGR,    \* RacecarROSBagParser.__CONVERT_BGR
    db,             \* the db3 files, by name
    ppc,            \* where parse is: "spawn", "join", "returned"; "none"
    processes,      \* parse's list of started processes
    joined,         \* how many of them parse has joined
    wk,             \* wk[w]: the locals of stream w's readBlobData
    disk,           \* disk[w]: <dest>/<frame>/<frame>_<n>.jpeg, n |-> image
    prev,           \* prev[w]: what the stream's previous run reported
    cls             \* the classifier applied to one payload

vars == <<SKIP_FRAMES, CONVERT_BGR, db, ppc, processes, joined, wk, disk,
          prev, cls>>

\* a function with no file in it
NoFiles == [n \in {} |-> NoImage]

\* the locals of readBlobData before it is called, with what it has counted
\* and, in `before`, the names the call found in its output directory
IdleWorker(fs) ==
    [pc |-> "idle", files |-> fs, skipCount |-> 1, CONVERT_BGR |-> TRUE,
     fileIdx |-> 0, sqliteConnection |-> 0, cursor |-> 0, open |-> {},
     num_frame |-> 0, topicId |-> 0 - 1, total_messages |-> 0, offset |-> 0,
     outcome |-> "none", seen |-> 0, written |-> 0, skipped |-> 0,
     before |-> {}]

\* a call readBlobData(fs, dest, frame, skip, conv) that has not run yet
CalledWorker(fs, skip, conv) ==
    [IdleWorker(fs) EXCEPT !.pc = "called", !.skipCount = skip,
                           !.CONVERT_BGR = conv, !.outcome = "running"]

NoReport == [has |-> FALSE, skipCount |-> 0, outcome |-> "none",
             written |-> 0, skipped |-> 0, before |-> {}]

ClsIdle == [stage |-> "none"]

(***************************************************************************)
(* readBlobData.  A connection is named by the position of its file in     *)
(* `files`; 0 is None.  l.open holds the connections opened and not yet    *)
(* closed.  An exception leaves through the except and finally clauses in  *)
(* the step that raises it.                                                *)
(***************************************************************************)
\* an exit without the finally clause: the connection is left open
FinallyNoClose(l, how) ==
    [IdleWorker(l.files) EXCEPT
        !.pc = "done", !.outcome = how,
        !.skipCount = l.skipCount, !.CONVERT_BGR = l.CONVERT_BGR,
        !.open = l.open,
        !.seen = l.seen, !.written = l.written, !.skipped = l.skipped,
        !.before = l.before]

\* lines 154-160: the except and finally clauses, and the exit.  What stays
\* of the call is how it ended, the connections it left open and what it
\* counted; its other locals are gone
Finally(l, how) ==
    [IdleWorker(l.files) EXCEPT
        !.pc = "done", !.outcome = how,
        !.skipCount = l.skipCount, !.CONVERT_BGR = l.CONVERT_BGR,
        !.open = IF l.sqliteConnection # 0
                 THEN l.open \ {l.sqliteConnection} ELSE l.open,
        !.seen = l.seen, !.written = l.written, !.skipped = l.skipped,
        !.before = l.before]

\* lines 81-82: connect to the next file and take a cursor.  The name
\* sqliteConnection is rebound; the connection it named is not closed by
\* the code, and whether the runtime has finalised it is not determined
Connect(l, collected) ==
    LET new == l.fileIdx + 1
        old == l.sqliteConnection
    IN  [l EXCEPT !.sqliteConnection = new, !.cursor = new,
                  !.open = (l.open \ (IF collected THEN {old} ELSE {}))
                           \cup {new}]

Collections(l) == IF l.sqliteConnection # 0 THEN BOOLEAN ELSE {FALSE}

\* the file the for loop is at
CurrentDb(l) == l.files[l.fileIdx + 1]

\* `continue`, or the end of the loop body: on to the next file
NextFile(l) == [l EXCEPT !.pc = "files", !.fileIdx = l.fileIdx + 1]

\* lines 70-79: the entry of readBlobData, up to the for loop
W_Enter(w) ==
    /\ wk[w].pc = "called"
    /\ wk' = [wk EXCEPT ![w] = [@ EXCEPT !.pc = "files",
                                         !.sqliteConnection = 0,
                                         !.num_frame = 0,
                                         !.topicId = 0 - 1]]
    /\ UNCHANGED <<SKIP_FRAMES, CONVERT_BGR, db, ppc, processes, joined,
                   disk, prev, cls>>

\* lines 80-94: connect to the next file and resolve the topic
W_Open(w) ==
    LET l == wk[w] IN
    /\ l.pc = "files"
    /\ l.fileIdx < Len(l.files)
    /\ \E collected \in Collections(l) :
          LET c == Connect(l, collected) IN
          wk' = [wk EXCEPT ![w] =
                    IF db[CurrentDb(l)][w].present
                    THEN [c EXCEPT !.pc = "count", !.topicId = w]
                    ELSE NextFile(c)]
    /\ UNCHANGED <<SKIP_FRAMES, CONVERT_BGR, db, ppc, processes, joined,
                   disk, prev, cls>>

\* a range that is taken to be empty when it holds a single offset
RangeStartsPastOne(total, skip) == skip > 0 /\ 1 < total

\* range(0, total_messages, skipCount) has a first element
RangeStarts(total, skip) == skip > 0 /\ 0 < total

\* lines 96-102: count the topic's messages and set up the range
W_Count(w) ==
    LET l == wk[w]
        total == Len(db[CurrentDb(l)][w].msgs)
        c == [l EXCEPT !.total_messages = total]
    IN
    /\ l.pc = "count"
    /\ wk' = [wk EXCEPT ![w] =
                IF l.skipCount = 0 THEN Finally(c, "ValueError")
                ELSE IF RangeStarts(total, l.skipCount)
                     THEN [c EXCEPT !.pc = "msgs", !.offset = 0]
                     ELSE NextFile(c)]
    /\ UNCHANGED <<SKIP_FRAMES, CONVERT_BGR, db, ppc, processes, joined,
                   disk, prev, cls>>

\* lines 102, 108-113: after the row at l.offset, the next offset of the
\* range or the end of the loop body
Advance(l) ==
    IF l.offset + l.skipCount < l.total_messages
    THEN [l EXCEPT !.offset = l.offset + l.skipCount]
    ELSE NextFile(l)

\* os.path.exists that never finds the file
ExistsNever(w, n) == FALSE

\* os.path.exists that finds no file but the first
ExistsFirstOnly(w, n) == n = 1 /\ n \in DOMAIN disk[w]

\* line 121: os.path.exists(final_name) for <frame>_<n>.jpeg
Exists(w, n) == n \in DOMAIN disk[w]

\* lines 103-150: one message of the range
W_Message(w) ==
    LET l == wk[w]
        photo == db[CurrentDb(l)][w].msgs[l.offset + 1]
        n == l.num_frame + 1
        c == [l EXCEPT !.num_frame = n, !.seen = l.seen + 1]
        img == DecodePayload(photo, JpegModeOf(frames[w]), l.CONVERT_BGR)
    IN
    /\ l.pc = "msgs"
    /\ IF Exists(w, n)
       THEN /\ wk' = [wk EXCEPT ![w] =
                        Advance([c EXCEPT !.skipped = l.skipped + 1])]
            /\ disk' = disk
       ELSE IF ImwriteRaises(img)
       THEN /\ wk' = [wk EXCEPT ![w] = Finally(c, "cv2.error")]
            /\ disk' = disk
       ELSE /\ wk' = [wk EXCEPT ![w] =
                        Advance([c EXCEPT !.written = l.written + 1])]
            /\ disk' = [disk EXCEPT ![w] = (n :> img) @@ @]
    /\ UNCHANGED <<SKIP_FRAMES, CONVERT_BGR, db, ppc, processes, joined,
                   prev, cls>>

\* lines 152-153 and the finally clause: after the last file
W_Finish(w) ==
    LET l == wk[w] IN
    /\ l.pc = "files"
    /\ l.fileIdx = Len(l.files)
    /\ wk' = [wk EXCEPT ![w] =
                IF l.cursor = 0 THEN Finally(l, "UnboundLocalError")
                ELSE Finally(l, "ok")]
    /\ UNCHANGED <<SKIP_FRAMES, CONVERT_BGR, db, ppc, processes, joined,
                   disk, prev, cls>>

\* a sqlite3.Error raised by connect (line 81) or by an execute (lines 87,
\* 98, 103): caught at line 154
W_SqliteError(w) ==
    LET l == wk[w] IN
    /\ \/ /\ l.pc = "files"
          /\ l.fileIdx < Len(l.files)
          /\ wk' = [wk EXCEPT ![w] = Finally(l, "sqlite3.Error")]
       \/ /\ l.pc = "files"
          /\ l.fileIdx < Len(l.files)
          /\ \E collected \in Collections(l) :
                wk' = [wk EXCEPT ![w] =
                          Finally(Connect(l, collected), "sqlite3.Error")]
       \/ /\ l.pc \in {"count", "msgs"}
          /\ wk' = [wk EXCEPT ![w] = Finally(l, "sqlite3.Error")]
    /\ UNCHANGED <<SKIP_FRAMES, CONVERT_BGR, db, ppc, processes, joined,
                   disk, prev, cls>>

Worker(w) ==
    \/ W_Enter(w)
    \/ W_Open(w)
    \/ W_Count(w)
    \/ W_Message(w)
    \/ W_Finish(w)
    \/ W_SqliteError(w)

(***************************************************************************)
(* RacecarROSBagParser.parse over the one file `source`, named 1.          *)
(***************************************************************************)
\* lines 188-191: start the process of the next stream
P_Start ==
    /\ ppc = "spawn"
    /\ Len(processes) < NumFrames
    /\ LET w == Len(processes) + 1 IN
       /\ processes' = Append(processes, w)
       /\ wk' = [wk EXCEPT ![w] = CalledWorker(<<1>>, SKIP_FRAMES, CONVERT_BGR)]
       /\ ppc' = IF w = NumFrames THEN "join" ELSE "spawn"
    /\ UNCHANGED <<SKIP_FRAMES, CONVERT_BGR, db, joined, disk, prev, cls>>

\* a join that does not wait
JoinReturnsAtOnce(w) == TRUE

\* p.join() returns once the process has ended
JoinReturns(w) == wk[w].pc = "done"

\* lines 193-194: join the next process, and return after the last
P_Join ==
    /\ ppc = "join"
    /\ joined < Len(processes)
    /\ JoinReturns(processes[joined + 1])
    /\ joined' = joined + 1
    /\ ppc' = IF joined + 1 = Len(processes) THEN "returned" ELSE "join"
    /\ UNCHANGED <<SKIP_FRAMES, CONVERT_BGR, db, processes, wk, disk, prev,
                   cls>>

\* __init__ and the log: a parser with any stride, a log that holds for each
\* stream no topic, or up to MaxJobMsgs messages of which at most one is not a
\* compressed image: a payload without the marker, or a raw sensor pattern
Init ==
    /\ SKIP_FRAMES \in Strides
    /\ CONVERT_BGR = TRUE
    /\ \E sh \in [Workers -> Shapes(MaxJobMsgs, {"nomarker", "raw"})] :
          db = [d \in {1} |-> [w \in Workers |-> LogOf(1, sh[w])]]
    /\ ppc = "spawn"
    /\ processes = <<>>
    /\ joined = 0
    /\ wk = [w \in Workers |-> IdleWorker(<<1>>)]
    /\ disk = [w \in Workers |-> NoFiles]
    /\ prev = [w \in Workers |-> NoReport]
    /\ cls = ClsIdle

Next ==
    \/ P_Start
    \/ P_Join
    \/ \E w \in Workers : Worker(w)

Spec == Init /\ [][Next]_vars

\* the processes are scheduled by the operating system, and parse runs on
FairSpec ==
    /\ Spec
    /\ WF_vars(P_Start)
    /\ WF_vars(P_Join)
    /\ \A w \in Workers :
          WF_vars(W_Enter(w) \/ W_Open(w) \/ W_Count(w) \/ W_Message(w)
                  \/ W_Finish(w))

(***************************************************************************)
(* readBlobData called directly, run after run, for the stream front_left  *)
(* over the same files and destination.                                    *)
(***************************************************************************)
\* what a finished run reported
ReportOf(l) ==
    [has |-> TRUE, skipCount |-> l.skipCount, outcome |-> l.outcome,
     written |-> l.written, skipped |-> l.skipped, before |-> l.before]

\* line 59: a call of readBlobData(files, destination, "front_left", skip);
\* the runs that are repeated are those over a single log, as parse makes them
Call ==
    /\ ppc = "none"
    /\ \/ wk[1].pc = "idle"
       \/ wk[1].pc = "done" /\ Len(wk[1].files) = 1
    /\ \E skip \in Strides :
          wk' = [wk EXCEPT ![1] =
                    [CalledWorker(wk[1].files, skip, CONVERT_BGR)
                        EXCEPT !.before = DOMAIN disk[1]]]
    /\ prev' = [prev EXCEPT ![1] = IF wk[1].pc = "done" THEN ReportOf(wk[1])
                                   ELSE @]
    /\ UNCHANGED <<SKIP_FRAMES, CONVERT_BGR, db, ppc, processes, joined,
                   disk, cls>>

\* up to MaxFiles files holding up to MaxMsgs messages of the topic between
\* them, at most one of them odd, and an empty destination
InitRun ==
    /\ SKIP_FRAMES = 1
    /\ CONVERT_BGR = TRUE
    /\ \E n \in 0..MaxFiles :
       \E sh \in [1..n -> Shapes(MaxMsgs, {"nomarker", "early"})] :
          /\ TotalMsgs(sh, n) <= MaxMsgs
          /\ TotalOdd(sh, n) <= 1
          /\ db = [d \in 1..n |-> [w \in {1} |-> LogOf(d, sh[d])]]
          /\ wk = [w \in Workers |-> IdleWorker(IF w = 1 THEN [d \in 1..n |-> d]
                                                ELSE <<>>)]
    /\ ppc = "none"
    /\ processes = <<>>
    /\ joined = 0
    /\ disk = [w \in Workers |-> NoFiles]
    /\ prev = [w \in Workers |-> NoReport]
    /\ cls = ClsIdle

\* what a cv2.imwrite that was cut short leaves under the name
TornFile == [kind |-> "torn"]

\* the process running readBlobData is killed, at any point of the call: no
\* clause of the function runs, and the system closes what the process held.
\* Killed inside cv2.imwrite (line 150), which has an image to write, it
\* leaves a torn file
Interrupt ==
    LET l == wk[1]
        n == l.num_frame + 1
    IN
    /\ ppc = "none"
    /\ l.pc \in {"called", "files", "count", "msgs"}
    /\ wk' = [wk EXCEPT ![1] = [Finally(l, "killed") EXCEPT !.open = {}]]
    /\ \/ disk' = disk
       \/ /\ l.pc = "msgs"
          /\ ~Exists(1, n)
          /\ ~ImwriteRaises(DecodePayload(
                    db[CurrentDb(l)][1].msgs[l.offset + 1],
                    JpegModeOf(frames[1]), l.CONVERT_BGR))
          /\ disk' = [disk EXCEPT ![1] = (n :> TornFile) @@ @]
    /\ UNCHANGED <<SKIP_FRAMES, CONVERT_BGR, db, ppc, processes, joined,
                   prev, cls>>

NextRun ==
    \/ Call
    \/ Worker(1)
    \/ Interrupt

SpecRun == InitRun /\ [][NextRun]_vars

(***************************************************************************)
(* Lines 125-150 applied to one payload: the classification (the marker    *)
(* search and the slice) and the decoding, in either mode.                 *)
(***************************************************************************)
\* what a payload is put together from
Markers == {<<>>, JFIF, JpegLead \o JFIF, BAYER, BGR}

\* padding, a marker, a second marker, padding
Payloads ==
    {Pad(a) \o m1 \o m2 \o Pad(t) :
        <<a, m1, m2, t>> \in (0..MaxPad) \X Markers \X Markers \X (0..MaxTail)}

InitClassify ==
    /\ SKIP_FRAMES = 1
    /\ CONVERT_BGR = TRUE
    /\ db = <<>>
    /\ ppc = "none"
    /\ processes = <<>>
    /\ joined = 0
    /\ wk = [w \in Workers |-> IdleWorker(<<>>)]
    /\ disk = [w \in Workers |-> NoFiles]
    /\ prev = [w \in Workers |-> NoReport]
    /\ \E photo \in Payloads, jpegMode \in BOOLEAN, conv \in BOOLEAN :
          cls = [stage |-> "payload", photo |-> photo, jpegMode |-> jpegMode,
                 CONVERT_BGR |-> conv]

\* lines 125-134: index and jpgArray
Classify ==
    /\ cls.stage = "payload"
    /\ cls' = [stage |-> "classified", photo |-> cls.photo,
               jpegMode |-> cls.jpegMode, CONVERT_BGR |-> cls.CONVERT_BGR,
               start |-> IF cls.jpegMode THEN JpegStart(cls.photo)
                         ELSE RawIndex(cls.photo),
               jpgArray |-> JpgArray(cls.photo, cls.jpegMode)]
    /\ UNCHANGED <<SKIP_FRAMES, CONVERT_BGR, db, ppc, processes, joined, wk,
                   disk, prev>>

\* lines 136-150: img, and whether imwrite gets to write it
Decode ==
    /\ cls.stage = "classified"
    /\ LET img == DecodePayload(cls.photo, cls.jpegMode, cls.CONVERT_BGR) IN
       cls' = [stage |-> "decoded", photo |-> cls.photo,
               jpegMode |-> cls.jpegMode, CONVERT_BGR |-> cls.CONVERT_BGR,
               start |-> cls.start, jpgArray |-> cls.jpgArray,
               img |-> img, written |-> ~ImwriteRaises(img)]
    /\ UNCHANGED <<SKIP_FRAMES, CONVERT_BGR, db, ppc, processes, joined, wk,
                   disk, prev>>

NextClassify ==
    \/ Classify
    \/ Decode

SpecClassify == InitClassify /\ [][NextClassify]_vars

(***************************************************************************)
(* Properties.                                                             *)
(***************************************************************************)
\* arr is s from byte offset o on
StartsAt(arr, s, o) ==
    /\ o \in 0..Len(s)
    /\ arr = [i \in 1..(Len(s) - o) |-> s[o + i]]

\* every occurrence of pat in s starts after byte `bound`, or there is none
NotWithin(s, pat, bound) ==
    \A i \in 0..(Len(s) - Len(pat)) :
        SubSeq(s, i + 1, i + Len(pat)) = pat => i > bound

Classified == cls.stage \in {"classified", "decoded"}

\* C7: for every payload that holds the marker JFIF, at any position, the
\* bytes handed to the decoder in compressed mode are the payload from byte
\* offset marker_position - 6 on.
C7_StartsSixBeforeMarker ==
    (Classified /\ cls.jpegMode /\ Find(cls.photo, JFIF) # 0 - 1)
        => StartsAt(cls.jpgArray, cls.photo, Find(cls.photo, JFIF) - 6)

\* C8: for every payload in raw mode in which neither "bayer" nor "bgr"
\* occurs within the first 64 bytes, or anywhere, the pixel start offset is
\* 0 and the whole payload is the pixel data.
C8_RawDefaultsToZero ==
    (Classified /\ ~cls.jpegMode /\ NotWithin(cls.photo, BAYER, 64)
                /\ NotWithin(cls.photo, BGR, 64))
        => StartsAt(cls.jpgArray, cls.photo, 0)

\* the number of elements of range(0, M, k) for a stride k >= 1
CeilDiv(M, k) == (M + k - 1) \div k

Done(w) == wk[w].pc = "done"

\* the call ended otherwise than by running off the end of the function
Failed(w) == Done(w) /\ wk[w].outcome # "ok"

\* the job's log holds frames for stream w, each of them decodable
Decodable(photo) == DecodePayload(photo, TRUE, TRUE).kind = "image"

NoBadPayload(d, w) ==
    \A i \in 1..Len(db[d][w].msgs) : Decodable(db[d][w].msgs[i])

\* the output files a run of stream w over file 1 with stride k is to leave
Expected(w, k) ==
    IF db[1][w].present /\ k >= 1 THEN 1..CeilDiv(Len(db[1][w].msgs), k)
    ELSE {}

\* C9: a configuration error is fatal at job start: no worker is started,
\* let alone runs, with a stride below 1.
C9_NoWorkerWithInvalidStride ==
    \A w \in Workers : wk[w].pc # "idle" => wk[w].skipCount >= 1

\* C10: when readBlobData has exited, on whatever path, no connection it
\* opened is still open, for any number of files.
C10_NoConnectionLeftOpen ==
    Done(1) => wk[1].open = {}

\* the stream ended with all its frames written, or by a sqlite error of its
\* own
Ended(v) ==
    /\ Done(v)
    /\ \/ wk[v].outcome = "ok" /\ DOMAIN disk[v] = Expected(v, SKIP_FRAMES)
       \/ wk[v].outcome = "sqlite3.Error"

\* C3: the step in which a worker fails changes nothing of another worker,
\* and once a worker has failed, every other worker whose own frames are
\* decodable still runs to its completion and writes all of its frames
\* (unless a sqlite error of its own ends it), under every interleaving.
C3_SiblingsRunToCompletion ==
    /\ [][\A w \in Workers :
            (~Failed(w) /\ Failed(w)') =>
                \A v \in Workers \ {w} : wk'[v] = wk[v] /\ disk'[v] = disk[v]]_vars
    /\ \A w \in Workers : \A v \in Workers \ {w} :
          (Failed(w) /\ SKIP_FRAMES >= 1 /\ NoBadPayload(1, v)) ~> Ended(v)

\* a worker has crashed on its first message and another has written all
\* of its frames, at least one
C3_Witness ==
    \E w \in Workers : \E v \in Workers \ {w} :
        /\ wk[w].outcome = "cv2.error"
        /\ wk[v].outcome = "ok"
        /\ disk[v] # NoFiles
        /\ DOMAIN disk[v] = Expected(v, SKIP_FRAMES)

\* parse has started one process for each stream, in the order of the list
OnePerStream == processes = [i \in 1..NumFrames |-> i]

\* C4: parse starts exactly one worker per stream and returns only after
\* every worker has ended, normally or not; and once all have ended it
\* does return.
C4_ParseJoinsAll ==
    /\ [](ppc \in {"join", "returned"} => OnePerStream)
    /\ [](ppc = "returned" => \A w \in Workers : Done(w))
    /\ (\A w \in Workers : Done(w)) ~> (ppc = "returned")

\* parse has returned after a worker that raised and one that did not
C4_Witness ==
    /\ ppc = "returned"
    /\ \E w \in Workers : wk[w].outcome \in {"cv2.error", "ValueError"}
    /\ \E w \in Workers : wk[w].outcome = "ok"

\* C5: a stream whose topic is not in the log's catalog examines no message
\* and writes no frame, exits without an exception and with its connection
\* closed, and the other streams, when they end normally, have all their
\* frames.
C5_AbsentTopicIsHarmless ==
    \A w \in Workers :
        (~db[1][w].present /\ Done(w)) =>
            /\ wk[w].outcome \in {"ok", "sqlite3.Error"}
            /\ wk[w].seen = 0
            /\ wk[w].written = 0
            /\ disk[w] = NoFiles
            /\ wk[w].open = {}
            /\ \A v \in Workers \ {w} :
                  (Done(v) /\ wk[v].outcome = "ok")
                      => DOMAIN disk[v] = Expected(v, SKIP_FRAMES)

\* a stream without topic has ended normally, having connected, and another
\* stream has written its frames
C5_Witness ==
    \E w \in Workers : \E v \in Workers \ {w} :
        /\ ~db[1][w].present
        /\ wk[w].outcome = "ok"
        /\ db[1][v].present
        /\ wk[v].outcome = "ok"
        /\ disk[v] # NoFiles
        /\ ppc = "returned"

\* a run of front_left over a single log that holds the topic, with a
\* stride of at least 1, has exited, and neither a sqlite error ended it nor
\* was it killed
RunOverLog ==
    /\ Done(1)
    /\ Len(wk[1].files) = 1
    /\ db[1][1].present
    /\ wk[1].skipCount >= 1
    /\ wk[1].outcome \notin {"sqlite3.Error", "killed"}

\* the message that such a run examines as its n-th
Examined(n) == db[1][1].msgs[(n - 1) * wk[1].skipCount + 1]

\* a run and the run before it, with the same stride, neither ended by a
\* sqlite error nor killed
RerunPair ==
    /\ prev[1].has
    /\ Done(1)
    /\ wk[1].skipCount = prev[1].skipCount
    /\ prev[1].outcome \notin {"sqlite3.Error", "killed"}
    /\ wk[1].outcome \notin {"sqlite3.Error", "killed"}

\* C1 as claimed: the second of two runs with the same stride writes no
\* file, and skips as existing as many frames as the first run wrote.
C1_RerunSkipsWhatFirstWrote ==
    RerunPair => (wk[1].written = 0 /\ wk[1].skipped = prev[1].written)

\* C1 as amended: the second of two runs with the same stride writes no
\* file, and skips as existing as many frames as the first run wrote or
\* itself skipped as existing.
C1_RerunSkipsWhatFirstSaw ==
    RerunPair =>
        /\ wk[1].written = 0
        /\ wk[1].skipped = prev[1].written + prev[1].skipped

\* a re-run has skipped frames its first run wrote and frames its first run
\* found existing
C1_Witness ==
    /\ RerunPair
    /\ wk[1].skipCount >= 1
    /\ prev[1].written >= 1
    /\ prev[1].skipped >= 1
    /\ wk[1].skipped = prev[1].written + prev[1].skipped

\* C2: in the first run over a log, a message whose payload lacks the marker
\* gets no file, and every other message of the range, before or after it,
\* gets its file.
C2_BadPayloadCostsOneFrame ==
    (RunOverLog /\ ~prev[1].has) =>
        \A n \in 1..CeilDiv(Len(db[1][1].msgs), wk[1].skipCount) :
            IF Find(Examined(n), JFIF) = 0 - 1
            THEN n \notin DOMAIN disk[1]
            ELSE Decodable(Examined(n)) => n \in DOMAIN disk[1]

\* C6: a run over a topic of M messages with stride k >= 1 examines exactly
\* ceil(M / k) messages, and the numbers 1..ceil(M / k) are those of its
\* output names.
C6_ExaminesCeilOfMessages ==
    RunOverLog =>
        LET c == CeilDiv(Len(db[1][1].msgs), wk[1].skipCount) IN
        /\ wk[1].seen = c
        /\ \A n \in 1..c : Decodable(Examined(n)) => n \in DOMAIN disk[1]

\* the step of stream w that examines a message whose output file exists
SkipsExisting(w) ==
    /\ wk[w].pc = "msgs"
    /\ wk[w].num_frame + 1 \in DOMAIN disk[w]
    /\ wk'[w].seen = wk[w].seen + 1

\* C11: no step removes an output file or changes what it holds, and the
\* step that examines a message whose output file exists neither decodes the
\* payload (a payload that cannot be decoded raises nothing) nor writes: it
\* counts one skip and goes on.
C11_ExistingFileLeftAlone ==
    [][\A w \in Workers :
          /\ \A n \in DOMAIN disk[w] :
                n \in DOMAIN disk'[w] /\ disk'[w][n] = disk[w][n]
          /\ SkipsExisting(w) =>
                /\ wk'[w].skipped = wk[w].skipped + 1
                /\ wk'[w].written = wk[w].written
                /\ wk'[w].outcome # "cv2.error"]_vars

\* a run has ended normally after skipping a message that cannot be decoded,
\* its file having been written by an earlier run with another stride
C11_Witness ==
    /\ RunOverLog
    /\ prev[1].has
    /\ wk[1].outcome = "ok"
    /\ wk[1].skipped >= 1
    /\ \E n \in DOMAIN disk[1] :
          /\ n <= CeilDiv(Len(db[1][1].msgs), wk[1].skipCount)
          /\ ~Decodable(Examined(n))

\* the payload is a raw sensor pattern: it names its encoding, "bayer" or
\* "bgr", within the first bytes and holds no JFIF marker
IsRawPattern(photo) ==
    /\ Find(photo, JFIF) = 0 - 1
    /\ \/ Find(photo, BAYER) \in 0..SearchBound
       \/ Find(photo, BGR) \in 0..SearchBound

\* C12: in a job started by parse, every raw sensor-pattern message that a
\* stream's run examines is decoded through the raw path: when the run has
\* ended (otherwise than by a sqlite error) the message's output file holds
\* the frame that the raw branch makes of the payload.
C12_RawPayloadTakesRawPath ==
    \A w \in Workers :
        (Done(w) /\ db[1][w].present /\ wk[w].skipCount >= 1
                 /\ wk[w].outcome # "sqlite3.Error") =>
            \A n \in 1..CeilDiv(Len(db[1][w].msgs), wk[w].skipCount) :
                LET photo == db[1][w].msgs[(n - 1) * wk[w].skipCount + 1] IN
                IsRawPattern(photo) =>
                    /\ n \in DOMAIN disk[w]
                    /\ disk[w][n] = DecodePayload(photo, FALSE, wk[w].CONVERT_BGR)

\* no run over the destination was killed while it wrote a file
NoTornFile == \A n \in DOMAIN disk[1] : disk[1][n].kind = "image"

\* C13: after any sequence of runs of front_left over the same log, each
\* with any stride, when a run has ended normally over a log of well-formed
\* messages, none of the runs having been cut short inside a write, every
\* output file <stream>_<n>.jpeg of its range, written or
\* skipped as existing, holds the frame of the message this run maps to n.
C13_NumberNamesSameMessage ==
    (RunOverLog /\ wk[1].outcome = "ok" /\ NoBadPayload(1, 1) /\ NoTornFile) =>
        \A n \in 1..CeilDiv(Len(db[1][1].msgs), wk[1].skipCount) :
            /\ n \in DOMAIN disk[1]
            /\ disk[1][n] = DecodePayload(Examined(n), TRUE, wk[1].CONVERT_BGR)

\* a run over the log was killed, and the run after it, with the same stride,
\* has gone on to its end
ResumedPair ==
    /\ RunOverLog
    /\ prev[1].has
    /\ prev[1].outcome = "killed"
    /\ prev[1].skipCount = wk[1].skipCount

\* the names a single run with stride k leaves, uninterrupted, in a
\* destination that held the names D0: the run writes what is missing until
\* it meets a missing frame that it cannot decode
SingleRunNames(D0, k) ==
    D0 \cup {n \in 1..CeilDiv(Len(db[1][1].msgs), k) :
                \A m \in 1..n :
                    m \in D0 \/ Decodable(db[1][1].msgs[(m - 1) * k + 1])}

\* C14: when a run is killed after any number of frames and run again with
\* the same stride to its end, the destination holds the names that one
\* uninterrupted run would have left in the destination the killed run
\* started from; and the second run skips every frame that it finds, and
\* writes only names that were not there (nothing is written twice).
C14_ResumeCompletesTheRun ==
    ResumedPair =>
        /\ DOMAIN disk[1] = SingleRunNames(prev[1].before, wk[1].skipCount)
        /\ wk[1].skipped = Cardinality(wk[1].before \cap 1..wk[1].seen)
        /\ wk[1].written = Cardinality(DOMAIN disk[1] \ wk[1].before)
        /\ wk[1].before \subseteq DOMAIN disk[1]

\* a run was killed after it had written a frame, and the run after it has
\* skipped what it found and written the rest
C14_Witness ==
    /\ ResumedPair
    /\ wk[1].outcome = "ok"
    /\ prev[1].written >= 1
    /\ wk[1].skipped >= 1
    /\ wk[1].written >= 1

====
